---- MODULE Spec2Model ----
(***************************************************************************)
(* A model of the gpt-cli chat client: the chat session engine             *)
(* (gptcli/session.py), the terminal listener it reports to               *)
(* (gptcli/cli.py), the assistant's initial messages (gptcli/assistant.py) *)
(* and the process entry point (gpt.py).                                   *)
(*                                                                         *)
(* Texts are sequences of one-character strings, so that concatenating     *)
(* fragments and stripping a leading space are computed, not assumed.      *)
(* One action of Spec is one iteration of ChatSession.loop.                *)
(***************************************************************************)
EXTENDS Naturals, Sequences, FiniteSets, TLC

VARIABLES
    assistant_name,   \* the assistant the session was constructed with
    config_messages,  \* assistant.config["messages"], the list init_messages copies
    aliased,          \* TRUE iff self.messages is the very list object config["messages"]
    messages,         \* ChatSession.messages
    user_prompts,     \* ChatSession.user_prompts: <<user_message, args>> pairs
    pc,               \* position of ChatSession.loop: "read" (at get_user_input),
                      \* "iterated" (an iteration has ended), "quit" or "crashed"
    input,            \* what get_user_input returned to this iteration
    stream,           \* what complete_chat did in this iteration (NoStream if not called)
    events,           \* listener / assistant calls made by this iteration, in order
    prev_messages,    \* messages when this iteration read its input
    prev_prompts,     \* user_prompts when this iteration read its input
    argv,             \* gpt.py: the parsed command line and configuration
    mpc,              \* gpt.py: position of main
    status,           \* gpt.py: the exit status, NoStatus while running
    out,              \* gpt.py: what main printed and which calls it made, in order
    asst              \* assistant.py: one resolution of an assistant, as a record

vars == <<assistant_name, config_messages, aliased, messages, user_prompts, pc,
          input, stream, events, prev_messages, prev_prompts,
          argv, mpc, status, out, asst>>

session_vars == <<assistant_name, config_messages, aliased, messages, user_prompts, pc,
                  input, stream, events, prev_messages, prev_prompts>>

main_vars == <<argv, mpc, status, out>>

(***************************************************************************)
(* Bounds of the model.                                                    *)
(***************************************************************************)
\* user turns that may be recorded at once
MaxTurns == 2

(***************************************************************************)
(* gptcli/assistant.py                                                     *)
(***************************************************************************)
Msg(role, content) == [role |-> role, content |-> content]

\* The built-in assistants; the long prompt texts are abbreviated to one letter.
DEFAULT_ASSISTANTS ==
    [dev     |-> <<Msg("system", <<"D">>), Msg("user", <<"S">>), Msg("assistant", <<"U">>)>>,
     general |-> <<>>,
     bash    |-> <<Msg("system", <<"B">>)>>]

AssistantNames == DOMAIN DEFAULT_ASSISTANTS

\* A list value together with whether it is the same object as config["messages"].
init_messages_alias(cfg) == [list |-> cfg, alias |-> TRUE]

\* return self.config.get("messages", [])[:]   -- a copy
init_messages(cfg) == [list |-> cfg, alias |-> FALSE]

\* The override keys an assistant accepts.
supported_overrides == {"model", "temperature", "top_p"}

(***************************************************************************)
(* gptcli/assistant.py: the resolution of an assistant and the choice of   *)
(* the provider.  A config dict is a function on Keys; the value "absent"  *)
(* says that the dict has no such key, "None" is Python None.  A messages  *)
(* value is named by a string, the list itself does not matter here.       *)
(***************************************************************************)
Keys == <<"messages", "model", "temperature", "top_p">>

KeySet == {Keys[i] : i \in 1..Len(Keys)}

EmptyDict == [k \in KeySet |-> "absent"]

CONFIG_DEFAULTS ==
    [k \in KeySet |-> CASE k = "model"       -> "gpt-3.5-turbo"
                        [] k = "temperature" -> "0.7"
                        [] k = "top_p"       -> "1.0"
                        [] OTHER             -> "absent"]

\* DEFAULT_ASSISTANTS[name] as a dict: the built-in assistants define messages only
DefaultConfig(name) == [EmptyDict EXCEPT !["messages"] = "[" \o name \o "]"]

\* dict.get(key): None for a missing key
get(config, key) == IF config[key] = "absent" THEN "None" ELSE config[key]

\* list(dict.keys()), in the order of Keys
RECURSIVE keys_from(_, _)
keys_from(config, i) ==
    IF i > Len(Keys) THEN <<>>
    ELSE (IF config[Keys[i]] = "absent" THEN <<>> ELSE <<Keys[i]>>) \o keys_from(config, i + 1)

keys(config) == keys_from(config, 1)

\* Assistant.from_config: the loop over [*config.keys(), *default_config.keys()];
\* default_config[key] raises KeyError for a key the built-in does not have
RECURSIVE merge(_, _, _)
merge(config, default_config, todo) ==
    IF todo = <<>> THEN [config |-> config, raised |-> "none"]
    ELSE LET key == Head(todo) IN
         IF get(config, key) = "None"
         THEN IF default_config[key] = "absent"
              THEN [config |-> config, raised |-> "KeyError"]
              ELSE merge([config EXCEPT ![key] = default_config[key]], default_config, Tail(todo))
         ELSE merge(config, default_config, Tail(todo))

\* Assistant.from_config
from_config(name, config) ==
    IF name \in AssistantNames
    THEN merge(config, DefaultConfig(name), keys(config) \o keys(DefaultConfig(name)))
    ELSE [config |-> config, raised |-> "none"]

\* Assistant._param
_param(config, param) ==
    IF config[param] # "absent" THEN config[param] ELSE CONFIG_DEFAULTS[param]

\* the characters of the strings the model tells apart
Chars ==
    ("oai-azure:gpt-4" :> <<"o", "a", "i", "-", "a", "z", "u", "r", "e", ":", "g", "p", "t", "-", "4">>) @@
    ("claude-3-opus" :> <<"c", "l", "a", "u", "d", "e", "-", "3", "-", "o", "p", "u", "s">>) @@
    ("llama-2-7b" :> <<"l", "l", "a", "m", "a", "-", "2", "-", "7", "b">>) @@
    ("command-r" :> <<"c", "o", "m", "m", "a", "n", "d", "-", "r">>) @@
    ("c4ai-aya" :> <<"c", "4", "a", "i", "-", "a", "y", "a">>) @@
    ("gemini-pro" :> <<"g", "e", "m", "i", "n", "i", "-", "p", "r", "o">>) @@
    ("gpt-3.5-turbo" :> <<"g", "p", "t", "-", "3", ".", "5", "-", "t", "u", "r", "b", "o">>) @@
    ("" :> <<>>) @@
    ("claude" :> <<"c", "l", "a", "u", "d", "e">>) @@
    ("my-claude" :> <<"m", "y", "-", "c", "l", "a", "u", "d", "e">>) @@
    ("oai-azure" :> <<"o", "a", "i", "-", "a", "z", "u", "r", "e">>) @@
    ("xllama" :> <<"x", "l", "l", "a", "m", "a">>) @@
    ("oai-azure:" :> <<"o", "a", "i", "-", "a", "z", "u", "r", "e", ":">>) @@
    ("llama" :> <<"l", "l", "a", "m", "a">>) @@
    ("command" :> <<"c", "o", "m", "m", "a", "n", "d">>) @@
    ("c4ai" :> <<"c", "4", "a", "i">>) @@
    ("gemini" :> <<"g", "e", "m", "i", "n", "i">>)

\* a test for the prefix anywhere in the string
startswith_anywhere(str, prefix) ==
    \E i \in 1..(Len(Chars[str]) + 1) :
        /\ i + Len(Chars[prefix]) - 1 <= Len(Chars[str])
        /\ SubSeq(Chars[str], i, i + Len(Chars[prefix]) - 1) = Chars[prefix]

\* str.startswith(prefix)
startswith(str, prefix) ==
    /\ Len(Chars[prefix]) <= Len(Chars[str])
    /\ SubSeq(Chars[str], 1, Len(Chars[prefix])) = Chars[prefix]

\* get_completion_provider: the class of the adapter returned
get_completion_provider(model) ==
    IF startswith(model, "oai-azure:") THEN "AzureOpenAICompletionProvider"
    ELSE IF startswith(model, "claude") THEN "AnthropicCompletionProvider"
    ELSE IF startswith(model, "llama") THEN "LLaMACompletionProvider"
    ELSE IF startswith(model, "command") \/ startswith(model, "c4ai")
    THEN "CohereCompletionProvider"
    ELSE IF startswith(model, "gemini") THEN "GoogleCompletionProvider"
    ELSE "OpenAICompletionProvider"

\* the model identifiers tried
ModelIds == {"oai-azure:gpt-4", "claude-3-opus", "llama-2-7b", "command-r", "c4ai-aya", "gemini-pro", "gpt-3.5-turbo", "", "claude", "my-claude", "oai-azure", "xllama"}

\* what is resolved: the name asked for, the user definition of that name
\* (NoDefinition when custom_assistants has none) and the command line
NoDefinition == [k \in KeySet |-> "undefined"]

UserDefinitions ==
    {d \in [KeySet -> {"absent", "None", "[user]", "claude-3-opus", "0.2"}] :
        /\ d["messages"] \in {"absent", "None", "[user]"}
        /\ d["model"] \in {"absent", "None", "claude-3-opus"}
        /\ d["temperature"] \in {"absent", "None", "0.2"}
        /\ d["top_p"] \in {"absent", "0.2"}}

GlobalArgs ==
    [model : {"None"} \cup ModelIds, temperature : {"None", "0.9"}, top_p : {"None", "0.9"}]

NoAssistant ==
    [name |-> "None", custom |-> NoDefinition,
     args |-> [model |-> "None", temperature |-> "None", top_p |-> "None"],
     config |-> EmptyDict, resolved |-> EmptyDict, pc |-> "idle", raised |-> "none",
     provider |-> "none", params |-> EmptyDict]

\* init_assistant up to the construction of the Assistant
ResolveAssistant ==
    /\ asst.pc = "init_assistant"
    /\ LET r == IF asst.custom # NoDefinition
                THEN from_config(asst.name, asst.custom)
                ELSE IF asst.name \in AssistantNames
                THEN from_config(asst.name, DefaultConfig(asst.name))
                ELSE [config |-> EmptyDict, raised |-> "SystemExit"]
       IN  asst' = [asst EXCEPT !.config = r.config, !.resolved = r.config,
                                !.raised = r.raised,
                                !.pc = IF r.raised = "none" THEN "overrides" ELSE "raised"]
    /\ UNCHANGED <<session_vars, main_vars>>

\* init_assistant: the command line arguments override the config
ApplyOverrides ==
    /\ asst.pc = "overrides"
    /\ LET c1 == IF asst.args.temperature # "None"
                 THEN [asst.config EXCEPT !["temperature"] = asst.args.temperature]
                 ELSE asst.config
           c2 == IF asst.args.model # "None"
                 THEN [c1 EXCEPT !["model"] = asst.args.model] ELSE c1
           c3 == IF asst.args.top_p # "None"
                 THEN [c2 EXCEPT !["top_p"] = asst.args.top_p] ELSE c2
       IN  asst' = [asst EXCEPT !.config = c3, !.pc = "complete_chat"]
    /\ UNCHANGED <<session_vars, main_vars>>

\* Assistant.complete_chat: the parameters and the provider of the request;
\* None has no startswith, and float(None) raises TypeError
CompleteChat ==
    /\ asst.pc = "complete_chat"
    /\ LET model == _param(asst.config, "model")
           temperature == _param(asst.config, "temperature")
           top_p == _param(asst.config, "top_p")
       IN  IF model = "None"
           THEN asst' = [asst EXCEPT !.pc = "raised", !.raised = "AttributeError"]
           ELSE IF temperature = "None" \/ top_p = "None"
           THEN asst' = [asst EXCEPT !.pc = "raised", !.raised = "TypeError",
                                     !.provider = get_completion_provider(model)]
           ELSE asst' = [asst EXCEPT !.pc = "done",
                                     !.provider = get_completion_provider(model),
                                     !.params = [EmptyDict EXCEPT !["model"] = model,
                                                     !["temperature"] = temperature,
                                                     !["top_p"] = top_p]]
    /\ UNCHANGED <<session_vars, main_vars>>

(***************************************************************************)
(* gptcli/term_utils.py: the control tokens                                *)
(***************************************************************************)
COMMAND_QUIT == {<<"q">>}
COMMAND_CLEAR == {<<"c">>}
COMMAND_RERUN == {<<"r">>}

(***************************************************************************)
(* The session's state as one value, threaded through the methods.         *)
(***************************************************************************)
Self == [messages |-> messages, user_prompts |-> user_prompts,
         config_messages |-> config_messages, aliased |-> aliased,
         events |-> <<>>]

Emit(s, name, arg) == [s EXCEPT !.events = Append(@, <<name, arg>>)]

\* self.messages.append(m): in place, so seen through every alias of the list
ListAppend(s, m) ==
    [s EXCEPT !.messages = Append(@, m),
              !.config_messages = IF s.aliased THEN Append(@, m) ELSE @]

\* self.messages = self.messages[:-1]: a new list (an empty list stays empty)
DropLast(seq) == IF Len(seq) = 0 THEN seq ELSE SubSeq(seq, 1, Len(seq) - 1)

ListDropLast(s) == [s EXCEPT !.messages = DropLast(@), !.aliased = FALSE]

(***************************************************************************)
(* Exceptions.  An exception value is a record with its class; None is     *)
(* what a Python function without a return statement returns.              *)
(***************************************************************************)
None == [class |-> "NoneType"]

Exc(class) == [class |-> class]

\* class -> its base classes (itself included), for isinstance and except
Bases(class) ==
    CASE class = "InvalidRequestError" -> {"InvalidRequestError", "OpenAIError", "Exception"}
      [] class = "OpenAIError"         -> {"OpenAIError", "Exception"}
      [] class = "KeyboardInterrupt"   -> {"KeyboardInterrupt"}
      [] class = "NoneType"            -> {"NoneType"}
      [] OTHER                         -> {class, "Exception"}

isinstance(e, class) == class \in Bases(e.class)

\* session.py declares InvalidArgumentError with def, not class: it is a
\* function of one parameter whose body only defines a local function, so a
\* call InvalidArgumentError(text) returns None and the name is not a type.
InvalidArgumentError(message) == None

InvalidArgumentError_is_type == FALSE

(***************************************************************************)
(* gptcli/cli.py: the terminal listener                                    *)
(***************************************************************************)
\* A method's result: the state after it, what it returned, what it raised.
Ret(s, value) == [s |-> s, ret |-> value, raised |-> "none"]

Raise(s, class) == [s |-> s, ret |-> FALSE, raised |-> class]

\* CLIChatListener.on_error
on_error(s, e) ==
    LET s1 == Emit(s, "on_error", e) IN
    IF isinstance(e, "InvalidRequestError")
    THEN Ret(Emit(s1, "console.print", "Request Error. The last prompt was not saved"), TRUE)
    ELSE IF isinstance(e, "OpenAIError")
    THEN Ret(Emit(s1, "console.print", "API Error. Type r or Ctrl-R to try again"), TRUE)
    ELSE IF ~InvalidArgumentError_is_type
    THEN Raise(s1, "TypeError")   \* isinstance() arg 2 must be a type
    ELSE IF e.class = "InvalidArgumentError"
    THEN Ret(Emit(s1, "console.print", "Invalid argument"), TRUE)
    ELSE Ret(Emit(s1, "console.print", "Error"), TRUE)

\* CLIChatListener.on_chat_rerun
on_chat_rerun(s, success) ==
    Emit(Emit(s, "on_chat_rerun", success), "console.print",
         IF success THEN "Re-running the last message." ELSE "Nothing to re-run.")

\* CLIChatListener.on_chat_clear
on_chat_clear(s) ==
    Emit(Emit(s, "on_chat_clear", TRUE), "console.print", "Cleared the conversation.")

startswith_space(token) == Len(token) > 0 /\ token[1] = " "

\* a streamer that strips every fragment
on_next_token_every(token, first_token) ==
    IF startswith_space(token) THEN Tail(token) ELSE token

\* CLIResponseStreamer.on_next_token: the token handed to the printer
on_next_token(token, first_token) ==
    IF first_token /\ startswith_space(token) THEN Tail(token) ELSE token

\* CLIResponseStreamer.on_next_token, applied to the fragments in order;
\* first_token is the field of the streamer
RECURSIVE on_next_tokens(_, _, _)
on_next_tokens(s, frags, first_token) ==
    IF frags = <<>> THEN s
    ELSE LET token == Head(frags)
             shown == on_next_token(token, first_token)
         IN on_next_tokens(Emit(s, "printer.print", shown), Tail(frags), FALSE)

(***************************************************************************)
(* What a call of assistant.complete_chat does, as the session sees it:    *)
(* frags   the fragments the iterator yields before it ends,               *)
(* end     "ok" (exhausted) or the class of the exception that ends it,    *)
(* at_call TRUE iff the exception is raised by the call itself, before the *)
(*         response streamer is entered.                                   *)
(* The outcome "Exception" raised by the call covers the TypeError that       *)
(* Assistant.complete_chat of assistant.py, which has no parameter          *)
(* override_params, raises for the call at session.py:89.                   *)
(***************************************************************************)
NoStream == [frags |-> <<>>, end |-> "none", at_call |-> FALSE]

FragA == <<"a">>

FragB == <<" ", " ", "b">>

FragSeqs == {<<>>, <<FragA>>, <<FragB>>, <<FragB, FragA>>, <<FragA, FragB>>}

\* "Exception" is any exception that is not an OpenAIError
Errors == {"InvalidRequestError", "OpenAIError", "Exception"}

Streams ==
    {[frags |-> fs, end |-> e, at_call |-> FALSE] :
        fs \in FragSeqs, e \in {"ok", "KeyboardInterrupt"}}
    \cup {[frags |-> fs, end |-> e, at_call |-> FALSE] : fs \in {<<>>, <<FragA>>}, e \in Errors}
    \cup {[frags |-> <<>>, end |-> e, at_call |-> TRUE] : e \in Errors \cup {"KeyboardInterrupt"}}

\* a loop that keeps only the fragment received last
Concat_last(frags) == IF frags = <<>> THEN <<>> ELSE frags[Len(frags)]

\* next_response after the loop: next_response += response, for each fragment
RECURSIVE Concat(_)
Concat(frags) == IF frags = <<>> THEN <<>> ELSE Head(frags) \o Concat(Tail(frags))

(***************************************************************************)
(* gptcli/session.py: ChatSession                                          *)
(***************************************************************************)
\* a clear that resets the history but not the recorded turns
_clear_keeps_prompts(s) ==
    LET im == init_messages(s.config_messages) IN
    on_chat_clear([s EXCEPT !.messages = im.list, !.aliased = im.alias])

\* ChatSession._clear
_clear(s) ==
    LET im == init_messages(s.config_messages) IN
    on_chat_clear([s EXCEPT !.messages = im.list, !.aliased = im.alias,
                            !.user_prompts = <<>>])

\* except clauses that report every OpenAIError as not saved
_respond_except_unsaved(s, e) ==
    IF isinstance(e, "OpenAIError")
    THEN LET r == on_error(s, e) IN
         IF r.raised # "none" THEN r ELSE Ret(r.s, FALSE)
    ELSE Raise(s, e.class)

\* ChatSession._respond: the except clauses for an exception e that is not a
\* KeyboardInterrupt; an exception no clause names propagates
_respond_except(s, e) ==
    IF isinstance(e, "InvalidRequestError")
    THEN LET r == on_error(s, e) IN
         IF r.raised # "none" THEN r ELSE Ret(r.s, FALSE)
    ELSE IF isinstance(e, "OpenAIError")
    THEN LET r == on_error(s, e) IN
         IF r.raised # "none" THEN r ELSE Ret(r.s, TRUE)
    ELSE Raise(s, e.class)

\* a response path that leaves the streamer only when the iterator is exhausted
_respond_leaks(s, args, st) ==
    LET s1 == Emit(s, "complete_chat", [messages |-> s.messages, override_params |-> args])
        s2 == IF st.at_call THEN s1
              ELSE LET s3 == on_next_tokens(Emit(s1, "stream.__enter__", TRUE), st.frags, TRUE)
                   IN  IF st.end = "ok" THEN Emit(s3, "stream.__exit__", TRUE) ELSE s3
        next_response == Msg("assistant", Concat(st.frags))
    IN  IF st.end \in {"ok", "KeyboardInterrupt"}
        THEN Ret(Emit(ListAppend(s2, next_response), "on_chat_message", next_response), TRUE)
        ELSE _respond_except(s2, Exc(st.end))

\* ChatSession._respond: ret is whether the response was saved
_respond(s, args, st) ==
    LET s1 == Emit(s, "complete_chat", [messages |-> s.messages, override_params |-> args])
        s2 == IF st.at_call THEN s1
              ELSE Emit(on_next_tokens(Emit(s1, "stream.__enter__", TRUE), st.frags, TRUE),
                        "stream.__exit__", TRUE)
        next_response == Msg("assistant", Concat(st.frags))
    IN  IF st.end \in {"ok", "KeyboardInterrupt"}
        THEN Ret(Emit(ListAppend(s2, next_response), "on_chat_message", next_response), TRUE)
        ELSE _respond_except(s2, Exc(st.end))

\* a test of the history where the recorded turns are meant
nothing_to_rerun_by_messages(s) == Len(s.messages) = 0

\* ChatSession._rerun: if len(self.user_prompts) == 0
nothing_to_rerun(s) == Len(s.user_prompts) = 0

\* a rerun that drops the last message whatever its role
_rerun_drop_always(s) == ListDropLast(s)

\* a rerun that keeps the previous reply
_rerun_drop_never(s) == s

\* a rerun that tests the role of the last message for the wrong value
_rerun_drop_if_user(s) ==
    IF s.messages[Len(s.messages)].role = "user" THEN ListDropLast(s) ELSE s

\* ChatSession._rerun: drop the last message if it is an assistant message
_rerun_drop(s) ==
    IF s.messages[Len(s.messages)].role = "assistant" THEN ListDropLast(s) ELSE s

\* ChatSession._rerun; a subscript [-1] of an empty list raises IndexError
_rerun(s, st) ==
    IF nothing_to_rerun(s)
    THEN Ret(on_chat_rerun(s, FALSE), TRUE)
    ELSE IF Len(s.messages) = 0
    THEN Raise(s, "IndexError")
    ELSE LET s1 == _rerun_drop(s)
             s2 == on_chat_rerun(s1, TRUE)
         IN  IF Len(s.user_prompts) = 0
             THEN Raise(s2, "IndexError")
             ELSE LET args == s.user_prompts[Len(s.user_prompts)][2]
                      r == _respond(s2, args, st)
                  IN  IF r.raised # "none" THEN r ELSE Ret(r.s, TRUE)

\* ChatSession._validate_args; args is the dict as its items in order
RECURSIVE _validate_args(_, _)
_validate_args(s, args) ==
    IF args = <<>> THEN Ret(s, TRUE)
    ELSE LET key == Head(args)[1] IN
         IF key \notin supported_overrides
         THEN LET r == on_error(s, InvalidArgumentError(key)) IN
              IF r.raised # "none" THEN r ELSE Ret(r.s, FALSE)
         ELSE _validate_args(s, Tail(args))

\* a user message that is appended and announced but not recorded as a turn
_add_user_message_unrecorded(s, user_input, args) ==
    LET user_message == Msg("user", user_input)
    IN  Emit(ListAppend(s, user_message), "on_chat_message", user_message)

\* ChatSession._add_user_message
_add_user_message(s, user_input, args) ==
    LET user_message == Msg("user", user_input)
        s1 == Emit(ListAppend(s, user_message), "on_chat_message", user_message)
    IN  [s1 EXCEPT !.user_prompts = Append(@, <<user_message, args>>)]

\* a rollback that forgets the recorded turn
_rollback_keeps_prompt(s) == ListDropLast(s)

\* ChatSession._rollback_user_message
_rollback_user_message(s) ==
    [ListDropLast(s) EXCEPT !.user_prompts = DropLast(@)]

\* One iteration of the while loop of ChatSession.loop, from the input it read.
Go(s, where) == [s |-> s, pc |-> where]

loop_body(s, user_input, args, st) ==
    LET v == _validate_args(s, args) IN
    IF v.raised # "none" THEN Go(v.s, "crashed")
    ELSE IF ~v.ret THEN Go(v.s, "iterated")
    ELSE IF user_input \in COMMAND_QUIT THEN Go(s, "quit")
    ELSE IF user_input \in COMMAND_CLEAR THEN Go(_clear(s), "iterated")
    ELSE IF user_input \in COMMAND_RERUN
    THEN LET r == _rerun(s, st) IN
         IF r.raised # "none" THEN Go(r.s, "crashed") ELSE Go(r.s, "iterated")
    ELSE LET s1 == _add_user_message(s, user_input, args)
             r == _respond(s1, args, st)
         IN  IF r.raised # "none" THEN Go(r.s, "crashed")
             ELSE IF ~r.ret THEN Go(_rollback_user_message(r.s), "iterated")
             ELSE Go(r.s, "iterated")

(***************************************************************************)
(* gpt.py: the entry point.  A run of main is a sequence of steps over     *)
(* args (the parsed command line) and config (the loaded ~/.gptrc), both   *)
(* kept in argv.  "None" stands for Python's None.                         *)
(***************************************************************************)
NoStatus == "running"

Argvs ==
    [assistant_name    : {"None", "dev", "mine", "nope"},  \* the positional argument
     default_assistant : {"general", "nope"},              \* config.default_assistant
     assistants        : {{}, {"mine"}},                   \* config.assistants.keys()
     checks_default    : BOOLEAN,  \* whether this argparse validates a default against choices
     api_key           : BOOLEAN,                          \* bool(config.api_key)
     log_file          : BOOLEAN,                          \* args.log_file is not None
     prompt            : {"None", "-", "p"},               \* --prompt
     execute           : {"None", "-", "e"},               \* --execute
     no_stream         : BOOLEAN]                          \* --no_stream

Out(name, arg) == out' = Append(out, <<name, arg>>)

Exit(code) == mpc' = "exit" /\ status' = code

\* validate_args: main never calls it
validate_args(args) ==
    IF args.prompt # "None" /\ args.execute # "None"
    THEN [printed |-> "The --prompt and --execute options are mutually exclusive.", exit |-> 1]
    ELSE [printed |-> "", exit |-> 0]

\* parse_args: argparse rejects a positional outside choices with status 2
ParseArgs ==
    /\ mpc = "parse_args"
    /\ LET choices == AssistantNames \cup argv.assistants
           given == argv.assistant_name # "None"
           name == IF given THEN argv.assistant_name ELSE argv.default_assistant
       IN  IF name \notin choices /\ (given \/ argv.checks_default)
           THEN /\ Out("argparse.error", name)
                /\ Exit(2)
                /\ UNCHANGED argv
           ELSE /\ argv' = [argv EXCEPT !.assistant_name = name]
                /\ mpc' = "logging"
                /\ UNCHANGED <<status, out>>
    /\ UNCHANGED <<session_vars, asst>>

\* main: logging.basicConfig when a log file is given
ConfigureLogging ==
    /\ mpc = "logging"
    /\ mpc' = "api_key"
    /\ IF argv.log_file THEN Out("logging.basicConfig", TRUE) ELSE UNCHANGED out
    /\ UNCHANGED <<argv, status>>
    /\ UNCHANGED <<session_vars, asst>>

\* a check of the API key that reports the absence and goes on
CheckApiKey_no_exit ==
    /\ mpc = "api_key"
    /\ mpc' = "init_assistant"
    /\ IF argv.api_key THEN UNCHANGED out ELSE Out("print", "No API key found.")
    /\ UNCHANGED <<argv, status>>
    /\ UNCHANGED <<session_vars, asst>>

\* main: the API key
CheckApiKey ==
    /\ mpc = "api_key"
    /\ IF argv.api_key
       THEN mpc' = "init_assistant" /\ UNCHANGED <<status, out>>
       ELSE Out("print", "No API key found.") /\ Exit(1)
    /\ UNCHANGED argv
    /\ UNCHANGED <<session_vars, asst>>

\* init_assistant
InitAssistant ==
    /\ mpc = "init_assistant"
    /\ IF argv.assistant_name \in argv.assistants
       THEN Out("Assistant.from_config", argv.assistant_name)
            /\ mpc' = "dispatch" /\ UNCHANGED status
       ELSE IF argv.assistant_name \in AssistantNames
       THEN Out("Assistant.from_config", argv.assistant_name)
            /\ mpc' = "dispatch" /\ UNCHANGED status
       ELSE Out("print", "Unknown assistant") /\ Exit(1)
    /\ UNCHANGED argv
    /\ UNCHANGED <<session_vars, asst>>

\* a choice of the mode that does not look at --execute
Dispatch_prompt_only ==
    /\ mpc = "dispatch"
    /\ mpc' = IF argv.prompt # "None" THEN "run_non_interactive" ELSE "run_interactive"
    /\ UNCHANGED <<argv, status, out>>
    /\ UNCHANGED <<session_vars, asst>>

\* main: the choice of the mode
Dispatch ==
    /\ mpc = "dispatch"
    /\ mpc' = IF argv.prompt # "None" THEN "run_non_interactive"
              ELSE IF argv.execute # "None" THEN "run_execute"
              ELSE "run_interactive"
    /\ UNCHANGED <<argv, status, out>>
    /\ UNCHANGED <<session_vars, asst>>

\* run_non_interactive: one completion, printed
RunNonInteractive ==
    /\ mpc = "run_non_interactive"
    /\ argv' = [argv EXCEPT !.prompt = IF @ = "-" THEN "stdin" ELSE @]
    /\ Out("simple_response", [prompt |-> argv'.prompt, stream |-> ~argv.no_stream])
    /\ Exit(0)
    /\ UNCHANGED <<session_vars, asst>>

\* run_execute: one completion, edited and run as a shell command
RunExecute ==
    /\ mpc = "run_execute"
    /\ argv' = [argv EXCEPT !.execute = IF @ = "-" THEN "stdin" ELSE @]
    /\ Out("execute", [prompt |-> argv'.execute, stream |-> FALSE])
    /\ Exit(0)
    /\ UNCHANGED <<session_vars, asst>>

\* run_interactive: the chat session, until it ends
RunInteractive ==
    /\ mpc = "run_interactive"
    /\ Out("ChatSession.loop", TRUE)
    /\ Exit(0)
    /\ UNCHANGED argv
    /\ UNCHANGED <<session_vars, asst>>

(***************************************************************************)
(* The chat session: inputs and actions                                    *)
(***************************************************************************)
NoInput == <<<<>>, <<>>>>

OrdinaryTexts == {<<"h">>}

ValidArgs == {<<>>, <<<<"model", "m">>>>}

InvalidArgs == {<<<<"bogus", "x">>>>, <<<<"top_p", "1">>, <<"bogus", "x">>>>}

\* while True: the back edge of the loop; the records of the iteration start afresh
LoopBack ==
    /\ pc = "iterated"
    /\ pc' = "read"
    /\ input' = NoInput
    /\ stream' = NoStream
    /\ events' = <<>>
    /\ prev_messages' = messages
    /\ prev_prompts' = user_prompts
    /\ UNCHANGED <<assistant_name, config_messages, aliased, messages, user_prompts>>
    /\ UNCHANGED <<main_vars, asst>>

ControlTokens == COMMAND_QUIT \cup COMMAND_CLEAR \cup COMMAND_RERUN

\* the state of a session run_interactive has constructed, at loop entry
SessionInit ==
    /\ assistant_name \in AssistantNames
    /\ config_messages = DEFAULT_ASSISTANTS[assistant_name]
    /\ messages = init_messages(config_messages).list
    /\ aliased = init_messages(config_messages).alias
    /\ user_prompts = <<>>
    /\ pc = "read"
    /\ input = NoInput
    /\ stream = NoStream
    /\ events = <<<<"on_chat_start", TRUE>>>>
    /\ prev_messages = messages
    /\ prev_prompts = user_prompts

\* one iteration of ChatSession.loop on the input <<user_input, args>>
Iterate(user_input, args, st) ==
    /\ pc = "read"
    /\ LET r == loop_body(Self, user_input, args, st) IN
       /\ messages' = r.s.messages
       /\ user_prompts' = r.s.user_prompts
       /\ config_messages' = r.s.config_messages
       /\ aliased' = r.s.aliased
       /\ events' = r.s.events
       /\ pc' = r.pc
    /\ input' = <<user_input, args>>
    /\ stream' = st
    /\ UNCHANGED <<prev_messages, prev_prompts>>
    /\ UNCHANGED assistant_name
    /\ UNCHANGED <<main_vars, asst>>

\* an input whose overrides do not validate
RejectArgs ==
    /\ pc = "read"
    /\ \E user_input \in OrdinaryTexts \cup ControlTokens, args \in InvalidArgs :
           Iterate(user_input, args, NoStream)

Quit ==
    /\ pc = "read"
    /\ \E user_input \in COMMAND_QUIT, args \in ValidArgs : Iterate(user_input, args, NoStream)

Clear ==
    /\ pc = "read"
    /\ \E user_input \in COMMAND_CLEAR, args \in ValidArgs : Iterate(user_input, args, NoStream)

RerunNothing ==
    /\ Len(user_prompts) = 0
    /\ \E user_input \in COMMAND_RERUN, args \in ValidArgs : Iterate(user_input, args, NoStream)

Rerun ==
    /\ Len(user_prompts) > 0
    /\ \E user_input \in COMMAND_RERUN, args \in ValidArgs, st \in Streams :
           Iterate(user_input, args, st)

Turn ==
    /\ Len(user_prompts) < MaxTurns
    /\ \E user_input \in OrdinaryTexts, args \in ValidArgs, st \in Streams :
           Iterate(user_input, args, st)

(***************************************************************************)
(* Spec: a chat session.  SpecMain: a run of main.                         *)
(***************************************************************************)
IdleMain ==
    /\ asst = NoAssistant
    /\ argv = [assistant_name |-> assistant_name, default_assistant |-> "general",
               assistants |-> {}, checks_default |-> TRUE, api_key |-> TRUE,
               log_file |-> FALSE, prompt |-> "None", execute |-> "None",
               no_stream |-> FALSE]
    /\ mpc = "run_interactive"
    /\ status = NoStatus
    /\ out = <<>>

\* main before run_interactive: no session is constructed
NoSession ==
    /\ assistant_name = "None"
    /\ config_messages = <<>>
    /\ aliased = FALSE
    /\ messages = <<>>
    /\ user_prompts = <<>>
    /\ pc = "unstarted"
    /\ input = NoInput
    /\ stream = NoStream
    /\ events = <<>>
    /\ prev_messages = <<>>
    /\ prev_prompts = <<>>

Init == SessionInit /\ IdleMain

Next == RejectArgs \/ Quit \/ Clear \/ RerunNothing \/ Rerun \/ Turn \/ LoopBack

Spec == Init /\ [][Next]_vars

InitMain ==
    /\ argv \in Argvs
    /\ mpc = "parse_args"
    /\ status = NoStatus
    /\ out = <<>>
    /\ asst = NoAssistant
    /\ NoSession

NextMain ==
    \/ ParseArgs \/ ConfigureLogging \/ CheckApiKey \/ InitAssistant \/ Dispatch
    \/ RunNonInteractive \/ RunExecute \/ RunInteractive

SpecMain == InitMain /\ [][NextMain]_vars

InitAssistants ==
    /\ \E name \in {"dev", "bash", "mine", "nope"},
          custom \in UserDefinitions \cup {NoDefinition},
          args \in GlobalArgs :
           /\ name = "mine" => custom # NoDefinition
           /\ name \in {"bash", "nope"} => custom = NoDefinition
           /\ asst = [NoAssistant EXCEPT !.name = name, !.custom = custom, !.args = args,
                                         !.pc = "init_assistant"]
    /\ argv = [assistant_name |-> "None", default_assistant |-> "general",
               assistants |-> {}, checks_default |-> TRUE, api_key |-> TRUE,
               log_file |-> FALSE, prompt |-> "None", execute |-> "None",
               no_stream |-> FALSE]
    /\ mpc = "init_assistant"
    /\ status = NoStatus
    /\ out = <<>>
    /\ NoSession

NextAssistants == ResolveAssistant \/ ApplyOverrides \/ CompleteChat

SpecAssistants == InitAssistants /\ [][NextAssistants]_vars

(***************************************************************************)
(* Properties                                                              *)
(***************************************************************************)
Last(seq) == seq[Len(seq)]

\* the fragments joined in the order received
RECURSIVE Joined(_)
Joined(frags) == IF frags = <<>> THEN <<>> ELSE Joined(DropLast(frags)) \o Last(frags)

\* the calls of one name this iteration made, in order
Calls(name) == SelectSeq(events, LAMBDA e : e[1] = name)

\* the completion requests this iteration issued
Requests == Calls("complete_chat")

InitialMessages == DEFAULT_ASSISTANTS[assistant_name]

ArgsSupported == \A i \in 1..Len(input[2]) : input[2][i][1] \in supported_overrides

\* the iteration for the input has run to its end
Ended == pc \in {"iterated", "crashed"}

OrdinaryInput == input # NoInput /\ input[1] \notin ControlTokens /\ ArgsSupported

RerunInput == input[1] \in COMMAND_RERUN /\ ArgsSupported

ClearInput == input[1] \in COMMAND_CLEAR /\ ArgsSupported

UserMessage == Msg("user", input[1])

AssistantMessages == SelectSeq(Calls("on_chat_message"), LAMBDA e : e[2].role = "assistant")

\* C1: an ordinary input with valid overrides whose completion fails with an
\* invalid-request error leaves, when the loop next reads input, the history and
\* the recorded turns exactly as they were before the user message was appended,
\* and no assistant message was added.
C1_InvalidRequestRollsBack ==
    (Ended /\ OrdinaryInput /\ stream.end = "InvalidRequestError")
        => /\ pc = "iterated"
           /\ messages = prev_messages
           /\ user_prompts = prev_prompts
           /\ AssistantMessages = <<>>

C1_Witness ==
    /\ pc = "iterated" /\ OrdinaryInput /\ stream.end = "InvalidRequestError"
    /\ Len(prev_prompts) > 0
    /\ Len(Calls("on_chat_message")) = 1

\* C2: an ordinary input with valid overrides whose completion fails with an
\* OpenAIError that is not an invalid-request error keeps the user message as
\* the last entry of history and its pair as the last recorded turn, appends no
\* assistant message whatever was streamed, and a rerun that follows issues one
\* completion request over that same history with the recorded overrides.
C2_ApiErrorKeepsTurn ==
    (Ended /\ OrdinaryInput /\ stream.end = "OpenAIError")
        => /\ pc = "iterated"
           /\ messages = Append(prev_messages, UserMessage)
           /\ user_prompts = Append(prev_prompts, <<UserMessage, input[2]>>)
           /\ AssistantMessages = <<>>
           /\ \A args \in ValidArgs, st \in Streams :
                 LET r == loop_body(Self, <<"r">>, args, st)
                     reqs == SelectSeq(r.s.events, LAMBDA e : e[1] = "complete_chat")
                 IN  reqs = <<<<"complete_chat",
                                [messages |-> messages, override_params |-> input[2]]>>>>

C2_Witness ==
    /\ pc = "iterated" /\ OrdinaryInput /\ stream.end = "OpenAIError"
    /\ stream.frags # <<>>
    /\ input[2] # <<>>

\* C3: whenever the response path reports the turn as not saved, for an
\* ordinary input or for a rerun, the most recent user message and its
\* recorded turn are removed before the next input is read.
C3_NotSavedAlwaysRollsBack ==
    (pc = "iterated" /\ stream.end = "InvalidRequestError" /\ Len(Requests) = 1)
        => /\ messages = DropLast(Requests[1][2].messages)
           /\ user_prompts = IF RerunInput THEN DropLast(prev_prompts) ELSE prev_prompts

\* C4: in every reachable state the history begins with the initial messages
\* of the assistant; a rerun never removes one of them.
C4_InitialMessagesArePrefix ==
    /\ Len(messages) >= Len(InitialMessages)
    /\ SubSeq(messages, 1, Len(InitialMessages)) = InitialMessages

C4_Witness ==
    /\ assistant_name = "dev"
    /\ pc = "iterated" /\ RerunInput /\ Len(prev_prompts) > 0
    /\ Last(prev_messages).role = "user"
    /\ messages = Append(InitialMessages, Msg("user", <<"h">>))

\* C5: a clear (with valid overrides), after any turns, leaves the history equal
\* to the initial messages the session started with and no recorded turn, and
\* notifies the listener of one clear.
C5_ClearResets ==
    (Ended /\ ClearInput)
        => /\ pc = "iterated"
           /\ messages = InitialMessages
           /\ user_prompts = <<>>
           /\ Len(Calls("on_chat_clear")) = 1

C5_Witness ==
    /\ pc = "iterated" /\ ClearInput
    /\ Len(prev_prompts) = MaxTurns
    /\ Len(prev_messages) > Len(InitialMessages) + 1

\* C6: a rerun (with valid overrides) while no turn is recorded changes neither
\* the history nor the recorded turns, issues no completion request, notifies
\* on_chat_rerun(False) and does not fail, also when the history is empty.
C6_RerunWithNothingRecorded ==
    (Ended /\ RerunInput /\ prev_prompts = <<>>)
        => /\ pc = "iterated"
           /\ messages = prev_messages
           /\ user_prompts = prev_prompts
           /\ Requests = <<>>
           /\ Calls("on_chat_rerun") = <<<<"on_chat_rerun", FALSE>>>>

C6_Witness ==
    /\ pc = "iterated" /\ RerunInput /\ prev_prompts = <<>>
    /\ messages = <<>>
    /\ Calls("on_chat_rerun") = <<<<"on_chat_rerun", FALSE>>>>

\* C7: with a recorded turn and a history ending in an assistant message, a
\* rerun removes that message only, issues one completion request whose
\* history ends with the last recorded user message and whose overrides are
\* the recorded ones, and on normal completion appends one assistant message:
\* the history is as long as before and the recorded turns are unchanged.
C7_RerunAfterReply ==
    (Ended /\ RerunInput /\ prev_prompts # <<>> /\ Last(prev_messages).role = "assistant")
        => /\ Requests = <<<<"complete_chat",
                             [messages |-> DropLast(prev_messages),
                              override_params |-> Last(prev_prompts)[2]]>>>>
           /\ Last(DropLast(prev_messages)) = Last(prev_prompts)[1]
           /\ Calls("on_chat_rerun") = <<<<"on_chat_rerun", TRUE>>>>
           /\ stream.end = "ok" =>
                /\ pc = "iterated"
                /\ messages = Append(DropLast(prev_messages),
                                     Msg("assistant", Joined(stream.frags)))
                /\ Len(messages) = Len(prev_messages)
                /\ user_prompts = prev_prompts

C7_Witness ==
    /\ pc = "iterated" /\ RerunInput /\ prev_prompts # <<>>
    /\ Last(prev_messages).role = "assistant"
    /\ stream.end = "ok"
    /\ input[2] # Last(prev_prompts)[2]
    /\ Last(messages) # Last(prev_messages)

\* C8: an input with an override key outside the supported set makes the
\* listener report an invalid-argument error, changes neither the history nor
\* the recorded turns, issues no completion request, and the loop goes on to
\* read the next input.
C8_UnsupportedOverrideRejected ==
    (Ended /\ input # NoInput /\ ~ArgsSupported)
        => /\ pc = "iterated"
           /\ messages = prev_messages
           /\ user_prompts = prev_prompts
           /\ Requests = <<>>
           /\ Len(Calls("on_error")) = 1
           /\ Calls("on_error")[1][2].class = "InvalidArgumentError"

\* C9: an interrupt while the reply is streamed appends an assistant message
\* whose content is the concatenation of the fragments received before it
\* (possibly none), consumes no further fragment, and the turn counts as saved:
\* the user message and its recorded turn stay.
C9_InterruptKeepsPartialReply ==
    (Ended /\ stream.end = "KeyboardInterrupt")
        => /\ pc = "iterated"
           /\ Len(Requests) = 1
           /\ messages = Append(Requests[1][2].messages,
                                Msg("assistant", Joined(stream.frags)))
           /\ Last(Requests[1][2].messages).role = "user"
           /\ user_prompts = IF RerunInput THEN prev_prompts
                             ELSE Append(prev_prompts, <<UserMessage, input[2]>>)
           /\ Len(Calls("printer.print")) = Len(stream.frags)
           /\ Calls("on_error") = <<>>

C9_Witness ==
    /\ pc = "iterated" /\ OrdinaryInput /\ stream.end = "KeyboardInterrupt"
    /\ Len(stream.frags) = 2
    /\ Last(messages) = Msg("assistant", <<" ", " ", "b", "a">>)

\* C10: when both --prompt and --execute are given, startup exits with a
\* non-zero status after reporting the mutual exclusion, and no mode is started.
ModeCalls == SelectSeq(out, LAMBDA e : e[1] \in {"simple_response", "execute", "ChatSession.loop"})

C10_PromptAndExecuteExclusive ==
    (argv.prompt # "None" /\ argv.execute # "None")
        => /\ mpc \notin {"run_non_interactive", "run_execute", "run_interactive"}
           /\ ModeCalls = <<>>
           /\ mpc = "exit" => status # 0


\* the assistant name main works with: the positional argument or the default
EffectiveName ==
    IF argv.assistant_name = "None" THEN argv.default_assistant ELSE argv.assistant_name

NameResolves == EffectiveName \in argv.assistants \cup AssistantNames

ModeReached == mpc \in {"run_non_interactive", "run_execute", "run_interactive"}

\* C11: a mode is dispatched only after the API key was found non-empty and
\* the assistant name was resolved among the user-defined or built-in
\* assistants; with the key absent or the name in neither set the process
\* exits with a non-zero status and starts no session and no completion.
C11_ModeOnlyAfterKeyAndAssistant ==
    /\ (mpc = "dispatch" \/ ModeReached \/ ModeCalls # <<>>)
          => /\ argv.api_key
             /\ NameResolves
             /\ Len(SelectSeq(out, LAMBDA e : e[1] = "Assistant.from_config")) = 1
    /\ (~argv.api_key \/ ~NameResolves)
          => /\ ModeCalls = <<>>
             /\ mpc = "exit" => status # 0

C11_Witness ==
    /\ mpc = "exit" /\ status = 1
    /\ argv.api_key /\ ~NameResolves
    /\ out = <<<<"print", "Unknown assistant">>>>


\* the decision table of the specification, written out for the identifiers tried
ExpectedProvider ==
    ("oai-azure:gpt-4" :> "AzureOpenAICompletionProvider") @@
    ("claude-3-opus" :> "AnthropicCompletionProvider") @@
    ("claude" :> "AnthropicCompletionProvider") @@
    ("llama-2-7b" :> "LLaMACompletionProvider") @@
    ("command-r" :> "CohereCompletionProvider") @@
    ("c4ai-aya" :> "CohereCompletionProvider") @@
    ("gemini-pro" :> "GoogleCompletionProvider") @@
    ("gpt-3.5-turbo" :> "OpenAICompletionProvider") @@
    ("" :> "OpenAICompletionProvider") @@
    ("my-claude" :> "OpenAICompletionProvider") @@
    ("oai-azure" :> "OpenAICompletionProvider") @@
    ("xllama" :> "OpenAICompletionProvider")

\* the model identifier a completion call of the resolved assistant uses
ModelAsked ==
    IF asst.config["model"] = "absent" THEN "gpt-3.5-turbo" ELSE asst.config["model"]

\* C12: the provider of a completion call is decided by the model identifier
\* alone, whatever the assistant, its other parameters and the command line:
\* oai-azure: selects Azure, claude Anthropic, llama LLaMA, command and c4ai
\* Cohere, gemini Google, and every other identifier, the empty one and one
\* that only contains such a string later included, selects OpenAI.
C12_ProviderByPrefix ==
    asst.provider # "none" =>
        /\ ModelAsked \in DOMAIN ExpectedProvider
        /\ asst.provider = ExpectedProvider[ModelAsked]

C12_Witness ==
    /\ asst.pc = "done"
    /\ asst.params["model"] = "my-claude"
    /\ asst.provider = "OpenAICompletionProvider"

\* a user definition of a built-in name is being resolved or has been
SharesBuiltinName ==
    /\ asst.pc \notin {"idle", "init_assistant"}
    /\ asst.name \in AssistantNames
    /\ asst.custom # NoDefinition

OverrideKeys == {"model", "temperature", "top_p"}

\* C13: a user definition that shares the name of a built-in assistant always
\* resolves; a field it leaves absent or null takes the value of the built-in,
\* a field it sets keeps its value; then model, temperature and top_p given on
\* the command line replace the resolved value and the others stay as resolved.
C13_UserDefinitionMerges ==
    SharesBuiltinName =>
        /\ asst.raised \notin {"KeyError", "SystemExit"}
        /\ \A k \in KeySet :
              asst.resolved[k] = IF asst.custom[k] \in {"absent", "None"}
                                 THEN DefaultConfig(asst.name)[k]
                                 ELSE asst.custom[k]
        /\ asst.pc \in {"complete_chat", "done"} =>
              \A k \in OverrideKeys :
                  asst.config[k] = IF asst.args[k] # "None" THEN asst.args[k]
                                   ELSE asst.resolved[k]


\* what the streamer of this iteration handed to its printer, in order
Printed == [i \in 1..Len(Calls("printer.print")) |-> Calls("printer.print")[i][2]]

\* C14: the streamer of a response removes one leading space from the first
\* fragment it is given and from no other: a first fragment that starts with a
\* space loses exactly that one space, every later fragment is printed as
\* received, and the streamer of the next response starts afresh.
C14_FirstFragmentStripped ==
    (Ended /\ stream # NoStream /\ ~stream.at_call) =>
        /\ Len(Printed) = Len(stream.frags)
        /\ \A i \in 1..Len(stream.frags) :
              LET token == stream.frags[i] IN
              IF i = 1 /\ token[1] = " "
              THEN <<" ">> \o Printed[i] = token
              ELSE Printed[i] = token

\* a response whose second fragment starts with a space, after an earlier
\* response whose first fragment was stripped
C14_Witness ==
    /\ pc = "iterated"
    /\ stream.frags = <<FragA, FragB>>
    /\ Printed = <<FragA, FragB>>
    /\ prev_messages # <<>>
    /\ Last(prev_messages) = Msg("assistant", FragB \o FragA)


\* C15: every failure of a completion call, raised by the call or while its
\* fragments are consumed and whatever its class, is handled in the response
\* path: the listener is told of the error once and the loop goes on to read
\* the next input.
C15_CompletionFailureHandled ==
    (Ended /\ stream.end \in Errors) =>
        /\ pc = "iterated"
        /\ Len(Calls("on_error")) = 1


QuitInput == input # NoInput /\ input[1] \in COMMAND_QUIT

\* C16: when the input is the quit token, whatever overrides come with it, the
\* loop returns: it reads no further input, issues no completion request and
\* leaves the history and the recorded turns as they were.
C16_QuitAlwaysTerminates ==
    QuitInput =>
        /\ pc = "quit"
        /\ Requests = <<>>
        /\ messages = prev_messages
        /\ user_prompts = prev_prompts


\* C17: a run of main that passes its checks starts exactly one mode: the
\* one-shot mode when a prompt was given, streaming unless --no_stream was
\* given; the execute mode when only an execute prompt was given; the
\* interactive mode otherwise.  The session loop is entered in no other mode.
C17_ExactlyOneMode ==
    /\ Len(ModeCalls) <= 1
    /\ (mpc = "exit" /\ status = 0) => Len(ModeCalls) = 1
    /\ ModeCalls # <<>> =>
          LET call == ModeCalls[1] IN
          IF argv.prompt # "None"
          THEN call[1] = "simple_response" /\ call[2].stream = ~argv.no_stream
          ELSE IF argv.execute # "None"
          THEN call[1] = "execute"
          ELSE call[1] = "ChatSession.loop"

C17_Witness ==
    /\ mpc = "exit" /\ status = 0
    /\ argv.prompt = "None" /\ argv.execute = "stdin"
    /\ ModeCalls = <<<<"execute", [prompt |-> "stdin", stream |-> FALSE]>>>>


AssistantReply == Msg("assistant", Joined(stream.frags))

\* C18: an ordinary input with valid overrides whose completion ends normally
\* extends the history by the user message and one assistant message made of
\* all fragments in order, adds the pair of user message and overrides to the
\* recorded turns, and notifies the listener of the user message before the
\* completion request and of the assistant message after the last fragment.
C18_NormalTurn ==
    (Ended /\ OrdinaryInput /\ stream.end = "ok") =>
        /\ pc = "iterated"
        /\ messages = prev_messages \o <<UserMessage, AssistantReply>>
        /\ user_prompts = Append(prev_prompts, <<UserMessage, input[2]>>)
        /\ Len(Calls("on_chat_message")) = 2
        /\ Len(Requests) = 1
        /\ events[1] = <<"on_chat_message", UserMessage>>
        /\ events[2] = <<"complete_chat",
                         [messages |-> Append(prev_messages, UserMessage),
                          override_params |-> input[2]]>>
        /\ Last(events) = <<"on_chat_message", AssistantReply>>
        /\ Len(Calls("printer.print")) = Len(stream.frags)

C18_Witness ==
    /\ pc = "iterated" /\ OrdinaryInput /\ stream.end = "ok"
    /\ stream.frags = <<FragB, FragA>>
    /\ input[2] # <<>>
    /\ Len(prev_prompts) > 0
    /\ Len(messages) = Len(prev_messages) + 2


\* how many of the first n events of this iteration are calls of name
RECURSIVE Count(_, _)
Count(name, n) ==
    IF n = 0 THEN 0 ELSE Count(name, n - 1) + (IF events[n][1] = name THEN 1 ELSE 0)

\* the response streams held after the first n events of this iteration
Held(n) == Count("stream.__enter__", n) - Count("stream.__exit__", n)

HandledExits == {"ok", "KeyboardInterrupt", "InvalidRequestError", "OpenAIError"}

\* C19: the response path releases every response stream it acquires before it
\* returns, whether the completion ends normally, by an interrupt, by an
\* invalid-request error or by another API error; at no time is more than one
\* held, none is held when the loop reads input, fragments are printed only
\* while one is held, and the error notification comes after the release.
C19_StreamReleased ==
    /\ \A n \in 0..Len(events) : Held(n) \in {0, 1}
    /\ Held(Len(events)) = 0
    /\ \A n \in 1..Len(events) :
          /\ events[n][1] = "printer.print" => Held(n) = 1
          /\ events[n][1] \in {"on_error", "on_chat_message", "complete_chat"} => Held(n) = 0
    /\ (Ended /\ stream # NoStream /\ ~stream.at_call /\ stream.end \in HandledExits) =>
          /\ pc = "iterated"
          /\ Count("stream.__enter__", Len(events)) = 1
          /\ stream.end \in Errors =>
                \E i, j \in 1..Len(events) :
                    /\ i < j
                    /\ events[i][1] = "stream.__exit__"
                    /\ events[j][1] = "on_error"

C19_Witness ==
    /\ pc = "iterated"
    /\ stream = [frags |-> <<FragA>>, end |-> "InvalidRequestError", at_call |-> FALSE]
    /\ Count("stream.__enter__", Len(events)) = 1
    /\ Count("stream.__exit__", Len(events)) = 1
    /\ Count("on_error", Len(events)) = 1


\* the user messages of the history that follow the initial messages
UserTurns ==
    SelectSeq(SubSeq(messages, Len(InitialMessages) + 1, Len(messages)),
              LAMBDA m : m.role = "user")

\* the message components of the recorded turns
RecordedMessages == [i \in 1..Len(user_prompts) |-> user_prompts[i][1]]

Conversation == SubSeq(messages, Len(InitialMessages) + 1, Len(messages))

\* C21: whenever the loop is about to read input, the history after the
\* initial messages starts, if it is not empty, with a user message, and every
\* assistant message in it comes right after a user message, so no two
\* assistant replies are adjacent; and the completion request of a rerun is
\* issued over a history whose last entry is the last recorded user message.
C21_RepliesFollowUserMessages ==
    /\ pc \in {"read", "iterated"} =>
          /\ Len(messages) >= Len(InitialMessages)
          /\ Conversation # <<>> => Conversation[1].role = "user"
          /\ \A i \in 1..Len(Conversation) :
                Conversation[i].role = "assistant" =>
                    i > 1 /\ Conversation[i - 1].role = "user"
    /\ (input # NoInput /\ RerunInput /\ Requests # <<>>) =>
          /\ Len(Requests) = 1
          /\ prev_prompts # <<>>
          /\ Requests[1][2].messages # <<>>
          /\ Last(Requests[1][2].messages) = Last(prev_prompts)[1]
          /\ Len(Requests[1][2].messages) > Len(InitialMessages)

\* a rerun of a turn that had a reply, after an earlier turn with a reply
C21_Witness ==
    /\ pc = "iterated" /\ input # NoInput /\ RerunInput /\ stream.end = "ok"
    /\ Last(prev_messages).role = "assistant"
    /\ Len(Requests) = 1
    /\ Len(user_prompts) = 2
    /\ Len(Conversation) = 4
    /\ Last(messages).role = "assistant"

====
